---------------------------- MODULE Spec2Model ----------------------------
(***************************************************************************)
(* A model of microscopium-ui's scatterplot core:                          *)
(*   SampleManager (src/app/static/js/SampleManager.js): the ordered       *)
(*     sample array, per-sample status byteflags, the id hash table, the   *)
(*     selected view and the quadtree built over it;                       *)
(*   PointsDrawer (src/app/routes.js, lines 73-281): the canvas drawer     *)
(*     that buckets samples by status and paints them in a fixed order.    *)
(* JavaScript values are modelled as records tagged by their type, array   *)
(* indices keep their 0-based JavaScript values (data[ii] is written       *)
(* data[ii + 1] on a TLA+ sequence).                                       *)
(***************************************************************************)
EXTENDS Integers, Sequences, FiniteSets, TLC

VARIABLES
    data,          \* SampleManager.data: the array of sample objects
    view,          \* SampleManager.view
    sampleIDhash,  \* SampleManager.sampleIDhash: own properties of the {} table
    allIndices,    \* SampleManager.allIndices
    quadTree,      \* SampleManager.quadTree
    xScale,        \* SampleManager.xScale
    yScale,        \* SampleManager.yScale
    drawer,        \* the PointsDrawer's fields: view, xScale, yScale, colourScale, overlay
    op,            \* the call made by the last step, with its arguments
    ret,           \* what that call returned or threw
    calls          \* the calls that step made on the drawer's canvas context, in order

managerVars == <<data, view, sampleIDhash, allIndices, quadTree, xScale, yScale>>
vars == <<data, view, sampleIDhash, allIndices, quadTree, xScale, yScale,
          drawer, op, ret, calls>>

---------------------------------------------------------------------------
(* Bounds of the model.                                                    *)

\* The longest sample array handed to the constructor.
MaxPoints == 2
\* The longest array argument (indices, sample ids) of a call.
MaxArgs == 2
\* Mouse positions range over 0..MaxPixel on each axis.
MaxPixel == 2

---------------------------------------------------------------------------
(* JavaScript values.                                                      *)

Undefined == [t |-> "undefined"]
Null == [t |-> "null"]
Num(n) == [t |-> "number", v |-> n]
Arr(s) == [t |-> "array", v |-> s]
\* An object reached through Object.prototype, named by the property read.
Inherited(k) == [t |-> "object", of |-> k]
\* A thrown exception.
Throw(e) == [t |-> "throw", e |-> e]

IsThrow(r) == r.t = "throw"

\* _.range(n): [0, 1, ..., n - 1]
Range(n) == [k \in 1..n |-> k - 1]

\* Bitwise AND of two non-negative integers.
RECURSIVE BitAnd(_, _)
BitAnd(a, b) ==
    IF a = 0 \/ b = 0 THEN 0
    ELSE (a % 2) * (b % 2) + 2 * BitAnd(a \div 2, b \div 2)

\* utils/Byteflag.js
byteFlagAdd(byte, flag) == byte + flag - BitAnd(byte, flag)
byteFlagRemove(byte, flag) == byte - BitAnd(byte, flag)
byteFlagCheck(byte, flag) == BitAnd(byte, flag) = flag

\* enums/sampleStatus.js
ACTIVE == 1
NEIGHBOUR == 2
FILTERED_OUT == 4
Flags == {ACTIVE, NEIGHBOUR, FILTERED_OUT}
\* every flag argument tried: the enum's flags and one composite mask
FlagArgs == Flags \cup {ACTIVE + NEIGHBOUR}

\* The view names setView documents.
Views == {"tsne", "pca"}
\* The view names tried as arguments: the documented ones and one other.
ViewArgs == Views \cup {"umap"}

---------------------------------------------------------------------------
(* Scales: a d3 linear scale p = k * v + c, with invert(p) = (p - c) / k.   *)

NoScale == [defined |-> FALSE, k |-> 1, c |-> 0]
Linear(k, c) == [defined |-> TRUE, k |-> k, c |-> c]
\* The scale pairs bound in the model: the identity, one that stretches x
\* and flips y, one that stretches y only.
ScaleArgs ==
    { <<Linear(1, 0), Linear(1, 0)>>,
      <<Linear(2, 0), Linear(-1, MaxPixel)>>,
      <<Linear(1, 0), Linear(2, 0)>> }
ScaleApply(s, v) == s.k * v + s.c

\* utils.euclideanDistance, squared
Distance2(x1, y1, x2, y2) == (x1 - x2) * (x1 - x2) + (y1 - y2) * (y1 - y2)

---------------------------------------------------------------------------
(* The sample objects handed to the constructor.                           *)

Sample(id, tsne, pca, overlays) ==
    [_id |-> id,
     dimension_reduce |-> [tsne |-> tsne, pca |-> pca],
     overlays |-> overlays]

\* The samples the inputs are made of: two share an id, two carry ids that
\* are also names of Object.prototype properties.
SamplePool ==
    << Sample("a", <<0, 0>>, <<3, 3>>, [None |-> 2]),
       Sample("b", <<3, 3>>, <<0, 1>>, <<>>),
       Sample("a", <<1, 2>>, <<1, 2>>, <<>>),
       Sample("constructor", <<0, 3>>, <<2, 0>>, <<>>),
       Sample("__proto__", <<2, 1>>, <<3, 0>>, <<>>) >>

\* Every array of at most MaxPoints samples of the pool.
Inputs ==
    UNION { [1..n -> {SamplePool[k] : k \in 1..Len(SamplePool)}] : n \in 0..MaxPoints }

\* The arrays the hit tests start from: at most MaxPoints of the pool's first
\* three samples, whose co-ordinates differ in both views.
QueryInputs ==
    UNION { [1..n -> {SamplePool[k] : k \in 1..3}] : n \in 0..MaxPoints }

\* The arrays the drawing specification starts from: the pool's first n
\* samples (with MaxPoints = 2 their ids are distinct).
DrawInputs ==
    { [k \in 1..n |-> SamplePool[((k - 1) % Len(SamplePool)) + 1]] : n \in 0..MaxPoints }

\* The sample ids tried in lookups: the pool's and one no sample carries.
IdArgs == {SamplePool[k]._id : k \in 1..Len(SamplePool)} \cup {"zz"}

---------------------------------------------------------------------------
(* The {} used as a hash table: own properties over Object.prototype.      *)

\* Names of Object.prototype properties among the ids tried.
ProtoKeys == {"constructor", "__proto__"}

\* hash[k] = v with v a number: an own property, except for "__proto__",
\* whose setter ignores a value that is not an object.
HashPut(h, k, v) ==
    IF k = "__proto__" THEN h
    ELSE [x \in DOMAIN h \cup {k} |-> IF x = k THEN v ELSE h[x]]

\* hash[k]: the own property, else the inherited one, else undefined.
HashGet(h, k) ==
    IF k \in DOMAIN h THEN h[k]
    ELSE IF k \in ProtoKeys THEN Inherited(k)
    ELSE Undefined

---------------------------------------------------------------------------
(* SampleManager                                                           *)

\* The accessors of _setQuadtree throw on a sample without the view's
\* co-ordinates (undefined[0]).
QuadtreeThrows(d, v) ==
    \E k \in 1..Len(d) : v \notin DOMAIN d[k].dimension_reduce

\* d3.geom.quadtree().x(..).y(..)(data): the tree holds, per sample, the
\* co-ordinates read at build time and a reference to the sample (its
\* position in the array).
Quadtree(d, v) ==
    [k \in 1..Len(d) |->
        [x |-> d[k].dimension_reduce[v][1],
         y |-> d[k].dimension_reduce[v][2],
         point |-> k - 1]]

\* The constructor's forEach: index, status and hash entry per sample.
RECURSIVE BuildHash(_, _)
BuildHash(d, n) ==
    IF n = 0 THEN <<>>
    ELSE HashPut(BuildHash(d, n - 1), d[n]._id, Num(n - 1))

\* The forEach keeping the index and status a sample already carries.
ConstructedDataKeepsCarried(input) ==
    [k \in 1..Len(input) |->
        [_id |-> input[k]._id,
         dimension_reduce |-> input[k].dimension_reduce,
         overlays |-> input[k].overlays,
         i |-> IF "i" \in DOMAIN input[k] THEN input[k].i ELSE k - 1,
         status |-> IF "status" \in DOMAIN input[k] THEN input[k].status ELSE 0]]

ConstructedData(input) ==
    [k \in 1..Len(input) |->
        [_id |-> input[k]._id,
         dimension_reduce |-> input[k].dimension_reduce,
         overlays |-> input[k].overlays,
         i |-> k - 1,
         status |-> 0]]

\* function SampleManager(data)
SampleManager(input) ==
    /\ data = ConstructedData(input)
    /\ view = "tsne"
    /\ sampleIDhash = BuildHash(input, Len(input))
    /\ allIndices = Range(Len(input))
    /\ quadTree = Quadtree(ConstructedData(input), "tsne")
    /\ xScale = NoScale
    /\ yScale = NoScale

\* function PointsDrawer(canvas)
PointsDrawer ==
    drawer = [view |-> "undefined", xScale |-> NoScale, yScale |-> NoScale,
              colourScale |-> "undefined", overlay |-> "None"]

\* quadTree.find([xInverse, yInverse]) with xInverse = xScale.invert(mx),
\* yInverse = yScale.invert(my): the entries at the least distance from the
\* query point. The squared distance is taken times (xs.k * ys.k)^2, which
\* keeps it an integer and its order unchanged. d3 breaks a tie by its
\* traversal order, which the model leaves open.
QueryDistance2(e, xs, ys, mouse) ==
    ys.k * ys.k * (mouse[1] - xs.c - xs.k * e.x) * (mouse[1] - xs.c - xs.k * e.x)
    + xs.k * xs.k * (mouse[2] - ys.c - ys.k * e.y) * (mouse[2] - ys.c - ys.k * e.y)

QuadtreeFind(tree, xs, ys, mouse) ==
    { k \in 1..Len(tree) :
        \A m \in 1..Len(tree) :
            QueryDistance2(tree[k], xs, ys, mouse) <= QueryDistance2(tree[m], xs, ys, mouse) }

\* HitTest measuring in the view's domain: the sample's co-ordinates are
\* compared with the mouse without the scales applied.
HitTestUnscaled(entry, mouse, r2) ==
    LET nearest == data[entry.point + 1] IN
    IF view \notin DOMAIN nearest.dimension_reduce THEN Throw("TypeError")
    ELSE
        LET distance2 == Distance2(mouse[1], mouse[2],
                                   nearest.dimension_reduce[view][1],
                                   nearest.dimension_reduce[view][2])
        IN  IF 4 * distance2 < r2 * r2 THEN Num(nearest.i) ELSE Num(-1)

\* The rest of findSampleFromMouse, for the tree entry found. The radius is
\* given in half pixels (r2 = 2 * r): distance < r iff 4 * distance^2 < r2^2.
HitTest(entry, mouse, r2) ==
    LET nearest == data[entry.point + 1] IN
    IF view \notin DOMAIN nearest.dimension_reduce THEN Throw("TypeError")
    ELSE
        LET xNearest == ScaleApply(xScale, nearest.dimension_reduce[view][1])
            yNearest == ScaleApply(yScale, nearest.dimension_reduce[view][2])
            distance2 == Distance2(mouse[1], mouse[2], xNearest, yNearest)
        IN  IF 4 * distance2 < r2 * r2 THEN Num(nearest.i) ELSE Num(-1)

\* SampleManager.prototype.findSampleFromMouse: every value the call can
\* return or throw. An unbound scale (undefined.invert) and an empty tree
\* (find returns undefined) throw a TypeError.
FindSampleFromMouse(mouse, r2) ==
    IF ~xScale.defined \/ ~yScale.defined THEN {Throw("TypeError")}
    ELSE IF Len(quadTree) = 0 THEN {Throw("TypeError")}
    ELSE { HitTest(quadTree[k], mouse, r2) : k \in QuadtreeFind(quadTree, xScale, yScale, mouse) }

\* SampleManager.prototype.getIndexFromID
GetIndexFromID(sampleID) ==
    IF sampleID.t = "array"
    THEN Arr([k \in 1..Len(sampleID.v) |-> HashGet(sampleIDhash, sampleID.v[k])])
    ELSE HashGet(sampleIDhash, sampleID.v)

\* SampleManager.prototype.setStatusToIndex: the statuses after the call.
\* The forEach removes the flag everywhere, the loop adds it per index.
RECURSIVE AddToIndices(_, _, _, _)
AddToIndices(d, index, n, status) ==
    IF n = 0 THEN d
    ELSE LET before == AddToIndices(d, index, n - 1, status)
             ii == index[n]
         IN  [before EXCEPT ![ii + 1].status = byteFlagAdd(@, status)]

\* setStatusToIndex without its forEach: the flag is added to the indices
\* and removed from no sample.
SetStatusToIndexNoRemove(d, index, status) ==
    IF index.t = "array"
    THEN AddToIndices(d, index.v, Len(index.v), status)
    ELSE [d EXCEPT ![index.v + 1].status = byteFlagAdd(@, status)]

\* setStatusToIndex writing the flag as the whole status of the indices.
SetStatusToIndexOverwrite(d, index, status) ==
    LET removed == [k \in 1..Len(d) |->
                        [d[k] EXCEPT !.status = byteFlagRemove(@, status)]]
        named == IF index.t = "array" THEN {index.v[j] : j \in 1..Len(index.v)}
                 ELSE {index.v}
    IN  [k \in 1..Len(d) |->
            IF (k - 1) \in named THEN [removed[k] EXCEPT !.status = status]
            ELSE removed[k]]

\* setStatusToIndex whose forEach clears every flag, not only the one given.
SetStatusToIndexClearsAll(d, index, status) ==
    LET removed == [k \in 1..Len(d) |-> [d[k] EXCEPT !.status = 0]]
    IN  IF index.t = "array"
        THEN AddToIndices(removed, index.v, Len(index.v), status)
        ELSE [removed EXCEPT ![index.v + 1].status = byteFlagAdd(@, status)]

SetStatusToIndex(d, index, status) ==
    LET removed == [k \in 1..Len(d) |->
                        [d[k] EXCEPT !.status = byteFlagRemove(@, status)]]
    IN  IF index.t = "array"
        THEN AddToIndices(removed, index.v, Len(index.v), status)
        ELSE [removed EXCEPT ![index.v + 1].status = byteFlagAdd(@, status)]

---------------------------------------------------------------------------
(* The manager's calls as steps.                                           *)

NoDraw == /\ UNCHANGED drawer
          /\ calls' = <<>>

\* SampleManager.prototype.setView: view is assigned before _setQuadtree
\* runs, so a throwing rebuild leaves the new view with the old tree.
SetView(v) ==
    /\ view' = v
    /\ IF QuadtreeThrows(data, v)
       THEN /\ quadTree' = quadTree
            /\ ret' = Throw("TypeError")
       ELSE /\ quadTree' = Quadtree(data, v)
            /\ ret' = Undefined
    /\ op' = [name |-> "setView", view |-> v]
    /\ UNCHANGED <<data, sampleIDhash, allIndices, xScale, yScale>>
    /\ NoDraw

\* SampleManager.prototype.setScale
SetScale(xs, ys) ==
    /\ xScale' = xs
    /\ yScale' = ys
    /\ op' = [name |-> "setScale"]
    /\ ret' = Undefined
    /\ UNCHANGED <<data, view, sampleIDhash, allIndices, quadTree>>
    /\ NoDraw

FindSample(mouse, r2) ==
    /\ ret' \in FindSampleFromMouse(mouse, r2)
    /\ op' = [name |-> "findSampleFromMouse", mouse |-> mouse, r2 |-> r2]
    /\ UNCHANGED managerVars
    /\ NoDraw

GetIndex(sampleID) ==
    /\ ret' = GetIndexFromID(sampleID)
    /\ op' = [name |-> "getIndexFromID", sampleID |-> sampleID]
    /\ UNCHANGED managerVars
    /\ NoDraw

SetStatus(index, status) ==
    /\ data' = SetStatusToIndex(data, index, status)
    /\ op' = [name |-> "setStatusToIndex", index |-> index, status |-> status]
    /\ ret' = Undefined
    /\ UNCHANGED <<view, sampleIDhash, allIndices, quadTree, xScale, yScale>>
    /\ NoDraw

---------------------------------------------------------------------------
(* Arguments tried.                                                        *)

Str(s) == [t |-> "string", v |-> s]
SeqsUpTo(S, n) == UNION { [1..m -> S] : m \in 0..n }
\* the arrays among them that list no element twice
DistinctSeqsUpTo(S, n) ==
    { s \in SeqsUpTo(S, n) : \A j, k \in 1..Len(s) : s[j] = s[k] => j = k }

MouseArgs == (0..MaxPixel) \X (0..MaxPixel)
\* radii in half pixels: 0.5 and 2 pixels
RadiusArgs == {1, 4}
SampleIDArgs == {Str(id) : id \in IdArgs} \cup {Arr(s) : s \in SeqsUpTo(IdArgs, MaxArgs)}
\* a valid index or an array of valid indices of the current data
IndexArgs == {Num(ii) : ii \in 0..(Len(data) - 1)}
             \cup {Arr(s) : s \in SeqsUpTo(0..(Len(data) - 1), MaxArgs)}

Start == [name |-> "new"]

InitOver(inputs) ==
    /\ \E input \in inputs : SampleManager(input)
    /\ PointsDrawer
    /\ op = Start
    /\ ret = Undefined
    /\ calls = <<>>

\* The manager's views, scales and hit tests.
Init == InitOver(QueryInputs)

Next ==
    \/ \E v \in ViewArgs : SetView(v)
    \/ \E scales \in ScaleArgs : SetScale(scales[1], scales[2])
    \/ \E mouse \in MouseArgs, r2 \in RadiusArgs : FindSample(mouse, r2)

Spec == Init /\ [][Next]_vars

\* The id lookups, over inputs with shared and with inherited-name ids.
InitIds == InitOver(Inputs)

NextIds == \E sampleID \in SampleIDArgs : GetIndex(sampleID)

SpecIds == InitIds /\ [][NextIds]_vars

\* The status updates, from the constructor's all-zero statuses.
InitStatus == InitOver(DrawInputs)

NextStatus == \E index \in IndexArgs, status \in FlagArgs : SetStatus(index, status)

SpecStatus == InitStatus /\ [][NextStatus]_vars

---------------------------------------------------------------------------
(* PointsDrawer                                                            *)

\* config/plots.js, neighbourPlot.pointStyle: one style per bucket. The
\* values are opaque to the drawer and kept symbolic.
Style(name) ==
    [fillStyle |-> "fill:" \o name, strokeStyle |-> "stroke:" \o name,
     strokeWidth |-> "width:" \o name, globalAlpha |-> "alpha:" \o name,
     radius |-> "radius:" \o name]

pointStyle ==
    [filteredOut |-> Style("filteredOut"), defaultStyle |-> Style("default"),
     neighbours |-> Style("neighbours"), active |-> Style("active")]

\* The colour scales bound in the model, and the colour each gives a value.
ColourScales == {"blues"}
ColourScaleApply(scale, value) == IF value = 0 THEN scale \o "(0)" ELSE scale \o "(n)"

IsNullOrUndefined(x) == x \in {"null", "undefined"}

\* Calls on the canvas context.
SetProp(prop, value) == [call |-> "set", prop |-> prop, value |-> value]
ClearRect == [call |-> "clearRect"]
\* point is the index of the sample the circle is drawn for; it is not an
\* argument of arc and is kept to tell the circles apart.
Arc(cx, cy, r, point) == [call |-> "arc", cx |-> cx, cy |-> cy, r |-> r, point |-> point]
Path(name) == [call |-> name]

\* What a run of drawing code did: the calls it made, and whether it threw.
Done(cs) == [calls |-> cs, threw |-> FALSE]
Threw(cs) == [calls |-> cs, threw |-> TRUE]

\* point.overlays[this.overlay] || 0
OverlayValue(point, overlay) ==
    IF overlay \in DOMAIN point.overlays THEN point.overlays[overlay] ELSE 0

\* PointsDrawer.prototype._drawPoint; fill is "undefined" when not passed.
\* Reading the co-ordinates of an unknown view, or calling an unset scale,
\* throws before anything is drawn.
DrawPoint(point, r, fill) ==
    IF \/ drawer.view \notin DOMAIN point.dimension_reduce
       \/ ~drawer.xScale.defined
       \/ ~drawer.yScale.defined
    THEN Threw(<<>>)
    ELSE
        LET cx == ScaleApply(drawer.xScale, point.dimension_reduce[drawer.view][1])
            cy == ScaleApply(drawer.yScale, point.dimension_reduce[drawer.view][2])
            fillStyle ==
                IF IsNullOrUndefined(fill)
                THEN IF ~IsNullOrUndefined(drawer.colourScale)
                     THEN ColourScaleApply(drawer.colourScale,
                                           OverlayValue(point, drawer.overlay))
                     ELSE pointStyle.defaultStyle.fillStyle
                ELSE fill
        IN  Done(<< SetProp("fillStyle", fillStyle),
                    Path("beginPath"), Arc(cx, cy, r, point.i), Path("closePath"),
                    Path("stroke"), Path("fill") >>)

\* The loop of _drawPoints over indices[from..], stopping at a throw.
RECURSIVE DrawLoop(_, _, _, _)
DrawLoop(indices, from, style, overrideFill) ==
    IF from > Len(indices) THEN Done(<<>>)
    ELSE
        LET ii == indices[from]
            one == IF overrideFill
                   THEN DrawPoint(data[ii + 1], style.radius, style.fillStyle)
                   ELSE DrawPoint(data[ii + 1], style.radius, "undefined")
        IN  IF one.threw THEN one
            ELSE LET rest == DrawLoop(indices, from + 1, style, overrideFill)
                 IN  [calls |-> one.calls \o rest.calls, threw |-> rest.threw]

\* _drawPoints assigning the stroke style again once its points are drawn.
DrawPointsStyleTwice(indices, style, overrideFill) ==
    LET loop == DrawLoop(indices, 1, style, overrideFill)
    IN  [calls |-> << SetProp("strokeStyle", style.strokeStyle),
                      SetProp("strokeWidth", style.strokeWidth),
                      SetProp("globalAlpha", style.globalAlpha) >> \o loop.calls
                   \o (IF loop.threw THEN <<>>
                        ELSE << SetProp("strokeStyle", style.strokeStyle) >>),
         threw |-> loop.threw]

\* PointsDrawer.prototype._drawPoints
DrawPoints(indices, style, overrideFill) ==
    LET loop == DrawLoop(indices, 1, style, overrideFill)
    IN  [calls |-> << SetProp("strokeStyle", style.strokeStyle),
                      SetProp("strokeWidth", style.strokeWidth),
                      SetProp("globalAlpha", style.globalAlpha) >> \o loop.calls,
         threw |-> loop.threw]

\* The scan of redraw over drawIndex[1..n]: the bucket arrays and the
\* active index ("undefined" until a sample with ACTIVE is met).
NoBuckets ==
    [active |-> Undefined, neighbours |-> <<>>, unStyled |-> <<>>, filteredOut |-> <<>>]

\* The scan keeping the first sample met with ACTIVE instead of the last.
RECURSIVE BucketsFirstActive(_, _)
BucketsFirstActive(drawIndex, n) ==
    IF n = 0 THEN NoBuckets
    ELSE
        LET b == BucketsFirstActive(drawIndex, n - 1)
            ii == drawIndex[n]
            point == data[ii + 1]
        IN  IF byteFlagCheck(point.status, ACTIVE)
            THEN IF b.active = Undefined THEN [b EXCEPT !.active = Num(ii)] ELSE b
            ELSE IF byteFlagCheck(point.status, NEIGHBOUR)
            THEN [b EXCEPT !.neighbours = Append(@, ii)]
            ELSE IF ~byteFlagCheck(point.status, FILTERED_OUT)
            THEN [b EXCEPT !.unStyled = Append(@, ii)]
            ELSE [b EXCEPT !.filteredOut = Append(@, ii)]

RECURSIVE Buckets(_, _)
Buckets(drawIndex, n) ==
    IF n = 0 THEN NoBuckets
    ELSE
        LET b == Buckets(drawIndex, n - 1)
            ii == drawIndex[n]
            point == data[ii + 1]
        IN  IF byteFlagCheck(point.status, ACTIVE)
            THEN [b EXCEPT !.active = Num(ii)]
            ELSE IF byteFlagCheck(point.status, NEIGHBOUR)
            THEN [b EXCEPT !.neighbours = Append(@, ii)]
            ELSE IF ~byteFlagCheck(point.status, FILTERED_OUT)
            THEN [b EXCEPT !.unStyled = Append(@, ii)]
            ELSE [b EXCEPT !.filteredOut = Append(@, ii)]

\* One after the other; the second does not run when the first threw.
Then(first, second) ==
    IF first.threw THEN first
    ELSE [calls |-> first.calls \o second.calls, threw |-> second.threw]

\* The drawIndex of redraw: the indices given, else the cached allIndices.
DrawIndex(indices) ==
    IF indices.t \notin {"null", "undefined"} THEN indices.v ELSE allIndices

\* redraw painting the active sample first instead of last.
RedrawActiveFirst(indices) ==
    LET drawIndex == DrawIndex(indices)
        b == Buckets(drawIndex, Len(drawIndex))
        drawFilteredOut ==
            IF Len(b.filteredOut) > 0
            THEN DrawPoints(b.filteredOut, pointStyle.filteredOut, FALSE)
            ELSE Done(<<>>)
        drawUnStyled ==
            IF Len(b.unStyled) > 0
            THEN DrawPoints(b.unStyled, pointStyle.defaultStyle, FALSE)
            ELSE Done(<<>>)
        drawNeighbours ==
            IF Len(b.neighbours) > 0
            THEN DrawPoints(b.neighbours, pointStyle.neighbours, TRUE)
            ELSE Done(<<>>)
        drawActive ==
            IF b.active # Undefined
            THEN DrawPoints(<<b.active.v>>, pointStyle.active, TRUE)
            ELSE Done(<<>>)
    IN  Then(Done(<<ClearRect>>),
             Then(drawActive, Then(drawFilteredOut, Then(drawUnStyled, drawNeighbours))))

\* PointsDrawer.prototype.redraw: the calls made on the context.
Redraw(indices) ==
    LET drawIndex == DrawIndex(indices)
        b == Buckets(drawIndex, Len(drawIndex))
        drawFilteredOut ==
            IF Len(b.filteredOut) > 0
            THEN DrawPoints(b.filteredOut, pointStyle.filteredOut, FALSE)
            ELSE Done(<<>>)
        drawUnStyled ==
            IF Len(b.unStyled) > 0
            THEN DrawPoints(b.unStyled, pointStyle.defaultStyle, FALSE)
            ELSE Done(<<>>)
        drawNeighbours ==
            IF Len(b.neighbours) > 0
            THEN DrawPoints(b.neighbours, pointStyle.neighbours, TRUE)
            ELSE Done(<<>>)
        drawActive ==
            IF b.active # Undefined
            THEN DrawPoints(<<b.active.v>>, pointStyle.active, TRUE)
            ELSE Done(<<>>)
    IN  Then(Done(<<ClearRect>>),
             Then(drawFilteredOut, Then(drawUnStyled, Then(drawNeighbours, drawActive))))

---------------------------------------------------------------------------
(* The drawer's calls as steps.                                            *)

\* redraw clearing the ACTIVE flag of the samples once they are painted.
RedrawStepClearsActive(indices) ==
    LET drawn == Redraw(indices) IN
    /\ calls' = drawn.calls
    /\ ret' = IF drawn.threw THEN Throw("TypeError") ELSE Undefined
    /\ op' = [name |-> "redraw", indices |-> indices]
    /\ UNCHANGED drawer
    /\ data' = [k \in 1..Len(data) |->
                    [data[k] EXCEPT !.status = byteFlagRemove(@, ACTIVE)]]
    /\ UNCHANGED <<view, sampleIDhash, allIndices, quadTree, xScale, yScale>>

\* redraw clearing the canvas only when the step before it drew on it.
RedrawStepSkipsClear(indices) ==
    LET drawn == Redraw(indices) IN
    /\ calls' = IF calls = <<>> THEN Tail(drawn.calls) ELSE drawn.calls
    /\ ret' = IF drawn.threw THEN Throw("TypeError") ELSE Undefined
    /\ op' = [name |-> "redraw", indices |-> indices]
    /\ UNCHANGED drawer
    /\ UNCHANGED managerVars

RedrawStep(indices) ==
    LET drawn == Redraw(indices) IN
    /\ calls' = drawn.calls
    /\ ret' = IF drawn.threw THEN Throw("TypeError") ELSE Undefined
    /\ op' = [name |-> "redraw", indices |-> indices]
    /\ UNCHANGED drawer
    /\ UNCHANGED managerVars

\* A configuration setter that also repaints the canvas.
DrawerSetterRedraws(name) ==
    /\ op' = [name |-> name]
    /\ ret' = Undefined
    /\ calls' = Redraw(Undefined).calls
    /\ UNCHANGED managerVars

DrawerSetter(name) ==
    /\ op' = [name |-> name]
    /\ ret' = Undefined
    /\ calls' = <<>>
    /\ UNCHANGED managerVars

\* PointsDrawer.prototype.setColourScale
SetColourScale(colourScale) ==
    /\ drawer' = [drawer EXCEPT !.colourScale =
                     IF IsNullOrUndefined(colourScale) THEN "null" ELSE colourScale]
    /\ DrawerSetter("drawer.setColourScale")

\* PointsDrawer.prototype.setView
DrawerSetView(v) ==
    /\ drawer' = [drawer EXCEPT !.view = v]
    /\ DrawerSetter("drawer.setView")

\* PointsDrawer.prototype.setScale
DrawerSetScale(xs, ys) ==
    /\ drawer' = [drawer EXCEPT !.xScale = xs, !.yScale = ys]
    /\ DrawerSetter("drawer.setScale")

\* redraw's indices: none given, or an array of valid indices
RedrawArgs ==
    {Undefined, Null} \cup {Arr(s) : s \in DistinctSeqsUpTo(0..(Len(data) - 1), MaxArgs)}
ColourScaleArgs == {"undefined"} \cup ColourScales
\* the scale pair the plot hands its drawer
DrawerScaleArgs == {<<Linear(2, 0), Linear(-1, MaxPixel)>>}

\* Every subset of the samples' indices, as the array listing it in order.
RECURSIVE Ascending(_, _)
Ascending(S, n) ==
    IF n = 0 THEN <<>>
    ELSE IF (n - 1) \in S THEN Append(Ascending(S, n - 1), n - 1)
    ELSE Ascending(S, n - 1)

IndexSets(n) == { Ascending(S, n) : S \in SUBSET (0..(n - 1)) }

\* The drawing starts after the constructor and one setStatusToIndex call
\* per flag, each over any set of samples: every status assignment.
InitDraw ==
    /\ \E input \in DrawInputs :
         \E A, N, F \in IndexSets(Len(input)) :
            LET n == Len(input)
                flagged ==
                    SetStatusToIndex(
                        SetStatusToIndex(
                            SetStatusToIndex(ConstructedData(input), Arr(A), ACTIVE),
                            Arr(N), NEIGHBOUR),
                        Arr(F), FILTERED_OUT)
            IN  /\ data = flagged
                /\ view = "tsne"
                /\ sampleIDhash = BuildHash(input, n)
                /\ allIndices = Range(n)
                /\ quadTree = Quadtree(ConstructedData(input), "tsne")
                /\ xScale = NoScale
                /\ yScale = NoScale
    /\ PointsDrawer
    /\ op = Start
    /\ ret = Undefined
    /\ calls = <<>>

NextDraw ==
    \/ \E indices \in RedrawArgs : RedrawStep(indices)
    \/ \E v \in Views : DrawerSetView(v)
    \/ \E scales \in DrawerScaleArgs : DrawerSetScale(scales[1], scales[2])

SpecDraw == InitDraw /\ [][NextDraw]_vars

\* The drawer with its colour scale: redraws of the whole collection or of
\* one sample, between calls of the three configuration setters.
FillRedrawArgs == {Undefined} \cup {Arr(<<ii>>) : ii \in 0..(Len(data) - 1)}

NextFill ==
    \/ \E indices \in FillRedrawArgs : RedrawStep(indices)
    \/ \E colourScale \in ColourScaleArgs : SetColourScale(colourScale)
    \/ \E v \in Views : DrawerSetView(v)
    \/ \E scales \in DrawerScaleArgs : DrawerSetScale(scales[1], scales[2])

SpecFill == InitDraw /\ [][NextFill]_vars

\* The index arguments naming each set of samples once, as an index or an
\* ascending array.
IndexSetArgs ==
    {Num(ii) : ii \in 0..(Len(data) - 1)} \cup {Arr(s) : s \in IndexSets(Len(data))}

\* The status updates again, each set of samples named in one way only.
NextOrder == \E index \in IndexSetArgs, status \in Flags : SetStatus(index, status)

SpecOrder == InitStatus /\ [][NextOrder]_vars

\* A sample that comes with an index and a status of its own, as one that
\* an earlier manager was built over does.
Carried(sample) ==
    [_id |-> sample._id,
     dimension_reduce |-> sample.dimension_reduce,
     overlays |-> sample.overlays,
     i |-> Len(SamplePool),
     status |-> ACTIVE + FILTERED_OUT]

\* The pool's first n samples, every second one carrying index and status.
CarriedInputs ==
    { [k \in 1..n |->
         IF k % 2 = 0 THEN Carried(SamplePool[((k - 1) % Len(SamplePool)) + 1])
         ELSE SamplePool[((k - 1) % Len(SamplePool)) + 1]] : n \in 0..MaxPoints }

\* Every call of the manager, and redraws by a drawer that was given the
\* view and scales, over samples that carried an index and a status.
InitIndex == InitOver(CarriedInputs)

NextIndex ==
    \/ \E index \in {Arr(s) : s \in IndexSets(Len(data))}, status \in {ACTIVE, FILTERED_OUT} :
          SetStatus(index, status)
    \/ \E v \in ViewArgs : SetView(v)
    \/ \E scales \in DrawerScaleArgs :
          \/ SetScale(scales[1], scales[2])
          \/ DrawerSetScale(scales[1], scales[2])
    \/ \E r2 \in RadiusArgs : FindSample(<<0, MaxPixel>>, r2)
    \/ \E id \in {"a", "zz"} : GetIndex(Str(id)) \/ GetIndex(Arr(<<id>>))
    \/ DrawerSetView("tsne")
    \/ RedrawStep(Undefined)

SpecIndex == InitIndex /\ [][NextIndex]_vars

\* A manager and a drawer side by side: each one's setView and setScale,
\* hit tests, and redraws of the whole collection.
NextViews ==
    \/ \E v \in Views : SetView(v)
    \/ \E v \in Views : DrawerSetView(v)
    \/ \E scales \in DrawerScaleArgs :
          \/ SetScale(scales[1], scales[2])
          \/ DrawerSetScale(scales[1], scales[2])
    \/ \E mouse \in MouseArgs, r2 \in RadiusArgs : FindSample(mouse, r2)
    \/ RedrawStep(Undefined)

SpecViews == InitStatus /\ [][NextViews]_vars

---------------------------------------------------------------------------
(* Properties of the manager.                                              *)

\* C2: in every reachable state the quadtree is the one built over the
\* co-ordinates of the currently selected view.
C2_IndexMatchesView ==
    /\ ~QuadtreeThrows(data, view)
    /\ quadTree = Quadtree(data, view)

\* C5: setView with a name that is not a known view throws an "unknown
\* projection" error and leaves the selected view and the quadtree as they
\* were before the call.
C5_UnknownViewRejected ==
    [][(op'.name = "setView" /\ op'.view \notin Views)
         => /\ ret' = Throw("unknown projection")
            /\ view' = view
            /\ quadTree' = quadTree]_vars

\* The samples nearest to the cursor in the selected view: the cursor is
\* taken to the view's domain by the inverse scales and compared with the
\* samples' own co-ordinates (not with what the quadtree stored).
TrueNearest(mouse) ==
    LET here(k) == [x |-> data[k].dimension_reduce[view][1],
                    y |-> data[k].dimension_reduce[view][2]]
    IN  { k \in 1..Len(data) :
            \A m \in 1..Len(data) :
                QueryDistance2(here(k), xScale, yScale, mouse)
                    <= QueryDistance2(here(m), xScale, yScale, mouse) }

PixelDistance2(k, mouse) ==
    Distance2(mouse[1], mouse[2],
              ScaleApply(xScale, data[k].dimension_reduce[view][1]),
              ScaleApply(yScale, data[k].dimension_reduce[view][2]))

DistinctIds == \A j, k \in 1..Len(data) : data[j]._id = data[k]._id => j = k

\* What the lookup of one id is said to give: the sample's position, or
\* undefined when no sample carries the id.
ExpectedIndex(id) ==
    IF \E k \in 1..Len(data) : data[k]._id = id
    THEN Num((CHOOSE k \in 1..Len(data) : data[k]._id = id) - 1)
    ELSE Undefined

\* C7: over samples with pairwise distinct ids, getIndexFromID(id) is the
\* position of the sample carrying id, and getIndexFromID(ids) is an array
\* as long as ids whose k-th entry is the index of ids[k], or undefined when
\* no sample carries ids[k].
C7_IndexFromID ==
    (op.name = "getIndexFromID" /\ DistinctIds)
    => IF op.sampleID.t = "array"
       THEN /\ ret.t = "array"
            /\ Len(ret.v) = Len(op.sampleID.v)
            /\ \A k \in 1..Len(ret.v) : ret.v[k] = ExpectedIndex(op.sampleID.v[k])
       ELSE (\E k \in 1..Len(data) : data[k]._id = op.sampleID.v)
                => ret = ExpectedIndex(op.sampleID.v)

\* C8: no manager is ever constructed over samples two of which share an id.
C8_SharedIdRejected == DistinctIds

---------------------------------------------------------------------------
(* Properties of the status updates.                                       *)

\* The indices an index argument names.
IndexSet(index) ==
    IF index.t = "array" THEN {index.v[j] : j \in 1..Len(index.v)} ELSE {index.v}

\* C1: after setStatusToIndex(S, F), whatever the statuses were before, the
\* samples whose index is in S have F set and all others do not.
C1_FlagOnExactlyTheIndices ==
    op.name = "setStatusToIndex"
    => \A k \in 1..Len(data) :
          byteFlagCheck(data[k].status, op.status) <=> (k - 1) \in IndexSet(op.index)

\* ACTIVE moved to the second sample alone, both samples carrying other
\* flags from earlier calls.
C1_Witness ==
    /\ op.name = "setStatusToIndex"
    /\ op.status = ACTIVE
    /\ op.index = Arr(<<1>>)
    /\ Len(data) = 2
    /\ data[1].status = NEIGHBOUR + FILTERED_OUT
    /\ data[2].status = ACTIVE + NEIGHBOUR + FILTERED_OUT

---------------------------------------------------------------------------
(* Properties of the drawer.                                               *)

\* The indices of the samples a circle was drawn for, in drawing order.
ArcCalls == { j \in 1..Len(calls) : calls[j].call = "arc" }
TimesDrawn(ii) == Cardinality({ j \in ArcCalls : calls[j].point = ii })

\* C3: a redraw without indices draws every sample exactly once; a redraw
\* with indices draws exactly the samples listed.
C3_EverySampleDrawnOnce ==
    (op.name = "redraw" /\ ~IsThrow(ret))
    => IF op.indices.t \in {"null", "undefined"}
       THEN \A ii \in 0..(Len(data) - 1) : TimesDrawn(ii) = 1
       ELSE { calls[j].point : j \in ArcCalls } = IndexSet(op.indices)

\* The place of a bucket in the painting order, by the radius of its style.
BucketRank(r) ==
    CASE r = pointStyle.filteredOut.radius -> 1
      [] r = pointStyle.defaultStyle.radius -> 2
      [] r = pointStyle.neighbours.radius -> 3
      [] r = pointStyle.active.radius -> 4

\* C4: within one redraw no circle of an earlier bucket is drawn after a
\* circle of a later bucket (filteredOut, default, neighbours, active), and
\* the circle of a sample carrying ACTIVE is drawn after every circle of the
\* default bucket.
C4_BucketOrder ==
    op.name = "redraw"
    => \A j, k \in ArcCalls :
          /\ j < k => BucketRank(calls[j].r) <= BucketRank(calls[k].r)
          /\ (/\ byteFlagCheck(data[calls[j].point + 1].status, ACTIVE)
              /\ calls[k].r = pointStyle.defaultStyle.radius) => k < j

\* A redraw that painted a default sample and then an active one.
C4_Witness ==
    /\ op.name = "redraw"
    /\ ~IsThrow(ret)
    /\ \E j, k \in ArcCalls :
          /\ j < k
          /\ calls[j].r = pointStyle.defaultStyle.radius
          /\ calls[k].r = pointStyle.active.radius
          /\ calls[j].point > calls[k].point

\* C9: a redraw leaves the manager as it was: the samples with their
\* statuses and indices, the id table, the view, the scales, the quadtree.
C9_RedrawLeavesManager ==
    [][op'.name = "redraw" => UNCHANGED managerVars]_vars

\* A completed redraw of two samples that carry flags.
C9_Witness ==
    /\ op.name = "redraw"
    /\ ~IsThrow(ret)
    /\ Cardinality(ArcCalls) = 2
    /\ \A k \in 1..Len(data) : data[k].status # 0

\* C10: a redraw repeated with the same indices, nothing else having been
\* called in between, makes the same calls on the context in the same order
\* and ends the same way.
C10_RedrawRepeats ==
    [][(op.name = "redraw" /\ op' = op) => (calls' = calls /\ ret' = ret)]_vars

\* A completed redraw of an explicit pair of indices, which can be repeated.
C10_Witness ==
    /\ op.name = "redraw"
    /\ op.indices = Arr(<<1, 0>>)
    /\ ~IsThrow(ret)
    /\ Len(calls) > 1

\* The fill in effect when the circle of calls[j] is filled: the value of
\* the last assignment to fillStyle before it.
FillAt(j) ==
    LET sets == { m \in 1..(j - 1) : calls[m].call = "set" /\ calls[m].prop = "fillStyle" }
        last == CHOOSE m \in sets : \A n \in sets : n <= m
    IN  IF sets = {} THEN "unset" ELSE calls[last].value

\* The style of the bucket a circle belongs to, told by its radius.
BucketStyle(r) ==
    CASE r = pointStyle.filteredOut.radius -> pointStyle.filteredOut
      [] r = pointStyle.defaultStyle.radius -> pointStyle.defaultStyle
      [] r = pointStyle.neighbours.radius -> pointStyle.neighbours
      [] r = pointStyle.active.radius -> pointStyle.active

\* C11: every circle of the neighbours and active buckets is filled with
\* its bucket's fillStyle, colour scale or not; every circle of the
\* filteredOut and default buckets is filled with the colour scale's colour
\* for the sample's value of the current overlay (0 when it has none) when a
\* colour scale is bound, and with its bucket's fillStyle otherwise.
C11_FillPerBucket ==
    op.name = "redraw"
    => \A j \in ArcCalls :
          LET style == BucketStyle(calls[j].r)
              point == data[calls[j].point + 1]
              value == IF drawer.overlay \in DOMAIN point.overlays
                       THEN point.overlays[drawer.overlay] ELSE 0
          IN  FillAt(j) =
                IF style \in {pointStyle.neighbours, pointStyle.active}
                THEN style.fillStyle
                ELSE IF drawer.colourScale \in ColourScales
                THEN ColourScaleApply(drawer.colourScale, value)
                ELSE style.fillStyle

DrawerSetters == {"drawer.setColourScale", "drawer.setView", "drawer.setScale"}

\* C12: setColourScale, setView and setScale of the drawer make no call on
\* the canvas context, leave the manager as it was, and change no field of
\* the drawer but the one (the two scales) they set.
C12_SettersOnlyConfigure ==
    [][op'.name \in DrawerSetters
        => /\ calls' = <<>>
           /\ UNCHANGED managerVars
           /\ op'.name = "drawer.setColourScale"
                => drawer' = [drawer EXCEPT !.colourScale = drawer'.colourScale]
           /\ op'.name = "drawer.setView"
                => drawer' = [drawer EXCEPT !.view = drawer'.view]
           /\ op'.name = "drawer.setScale"
                => drawer' = [drawer EXCEPT !.xScale = drawer'.xScale,
                                            !.yScale = drawer'.yScale]]_vars

\* A colour scale bound on a drawer that has its view and scales, over two
\* samples that a redraw would paint.
C12_Witness ==
    /\ op.name = "drawer.setColourScale"
    /\ drawer.colourScale \in ColourScales
    /\ drawer.view = "tsne"
    /\ drawer.xScale.defined
    /\ Len(data) = 2
    /\ Redraw(Undefined).calls # <<>>
    /\ calls = <<>>

\* The working set of the redraw just made, as the array scanned and as a
\* set of indices.
ScanOrder == IF op.indices.t \in {"null", "undefined"} THEN Range(Len(data)) ELSE op.indices.v
WorkingSet == { ScanOrder[j] : j \in 1..Len(ScanOrder) }

\* The bucket a status belongs to by the priority ACTIVE, NEIGHBOUR, not
\* FILTERED_OUT, FILTERED_OUT.
PriorityBucket(status) ==
    IF BitAnd(status, ACTIVE) = ACTIVE THEN pointStyle.active
    ELSE IF BitAnd(status, NEIGHBOUR) = NEIGHBOUR THEN pointStyle.neighbours
    ELSE IF BitAnd(status, FILTERED_OUT) # FILTERED_OUT THEN pointStyle.defaultStyle
    ELSE pointStyle.filteredOut

\* C13: a redraw puts every sample of its working set in exactly one
\* bucket, the one its status has by the priority ACTIVE -> active, else
\* NEIGHBOUR -> neighbours, else not FILTERED_OUT -> default, else
\* filteredOut: the sample is drawn once, with the radius of that bucket.
C13_BucketByPriority ==
    (op.name = "redraw" /\ ~IsThrow(ret))
    => \A ii \in WorkingSet :
          /\ TimesDrawn(ii) = 1
          /\ \A j \in ArcCalls :
                calls[j].point = ii
                => calls[j].r = PriorityBucket(data[ii + 1].status).radius

\* The samples of the working set that carry ACTIVE, and the place in the
\* scan of the last of them.
ActiveInWorkingSet == { ii \in WorkingSet : BitAnd(data[ii + 1].status, ACTIVE) = ACTIVE }
LastActivePlace ==
    CHOOSE j \in 1..Len(ScanOrder) :
        /\ ScanOrder[j] \in ActiveInWorkingSet
        /\ \A m \in 1..Len(ScanOrder) : ScanOrder[m] \in ActiveInWorkingSet => m <= j

\* C14: when more than one sample of the working set carries ACTIVE, the
\* redraw draws with the active style only the last of them in scan order,
\* and draws no circle at all for the earlier ones.
C14_LastActiveWins ==
    (op.name = "redraw" /\ ~IsThrow(ret) /\ Cardinality(ActiveInWorkingSet) > 1)
    => /\ { calls[j].point : j \in { m \in ArcCalls : calls[m].r = pointStyle.active.radius } }
            = { ScanOrder[LastActivePlace] }
       /\ TimesDrawn(ScanOrder[LastActivePlace]) = 1
       /\ \A ii \in ActiveInWorkingSet \ { ScanOrder[LastActivePlace] } : TimesDrawn(ii) = 0

\* Two ACTIVE samples redrawn in the order 1, 0: sample 0 is the one drawn.
C14_Witness ==
    /\ op.name = "redraw"
    /\ op.indices = Arr(<<1, 0>>)
    /\ ~IsThrow(ret)
    /\ ActiveInWorkingSet = {0, 1}
    /\ TimesDrawn(0) = 1
    /\ TimesDrawn(1) = 0

StrokeProps == {"strokeStyle", "strokeWidth", "globalAlpha"}
SetsOf(prop, value) ==
    { j \in 1..Len(calls) :
        calls[j].call = "set" /\ calls[j].prop = prop /\ calls[j].value = value }
ArcsOf(style) == { j \in ArcCalls : calls[j].r = style.radius }

\* C16: in one redraw strokeStyle, strokeWidth and globalAlpha are assigned
\* exactly once per bucket that has circles, before the first circle of the
\* bucket and never between two circles of the same bucket; a bucket
\* without circles causes no assignment: the only other assignments are
\* the one fillStyle per circle.
C16_StrokeOncePerBucket ==
    (op.name = "redraw" /\ ~IsThrow(ret))
    => /\ \A name \in DOMAIN pointStyle :
          LET style == pointStyle[name]
              arcs == ArcsOf(style)
          IN  /\ \A prop \in StrokeProps :
                    IF arcs = {}
                    THEN SetsOf(prop, style[prop]) = {}
                    ELSE /\ Cardinality(SetsOf(prop, style[prop])) = 1
                         /\ \A j \in SetsOf(prop, style[prop]), k \in arcs : j < k
              /\ \A j \in 1..Len(calls) :
                    (calls[j].call = "set" /\ calls[j].prop \in StrokeProps)
                    => /\ ~ \E k, m \in arcs : k < j /\ j < m
                       /\ \E n \in DOMAIN pointStyle :
                             /\ ArcsOf(pointStyle[n]) # {}
                             /\ calls[j].value = pointStyle[n][calls[j].prop]
       /\ Cardinality({ j \in 1..Len(calls) : calls[j].call = "set" })
            = Cardinality(StrokeProps) * Cardinality({ n \in DOMAIN pointStyle : ArcsOf(pointStyle[n]) # {} })
              + Cardinality(ArcCalls)

\* A redraw of two samples of one bucket, none in any other bucket.
C16_Witness ==
    /\ op.name = "redraw"
    /\ ~IsThrow(ret)
    /\ Cardinality(ArcsOf(pointStyle.neighbours)) = 2
    /\ Cardinality(SetsOf("strokeStyle", pointStyle.neighbours.strokeStyle)) = 1
    /\ SetsOf("strokeStyle", pointStyle.active.strokeStyle) = {}

\* C15: in every reachable state, from the construction of the manager and
\* the drawer on and after any calls of their setView, the drawer's view is
\* the manager's view.
C15_ViewsAgree == drawer.view = view

\* C17: the constructor gives every sample its position as index and
\* status 0, whatever index and status it came with, and after any calls
\* of setStatusToIndex, setView, setScale, findSampleFromMouse,
\* getIndexFromID and redraw the sample at position i still has index i.
C17_IndexIsPosition ==
    /\ \A k \in 1..Len(data) : data[k].i = k - 1
    /\ op = Start => \A k \in 1..Len(data) : data[k].status = 0

\* A completed redraw of two samples, the second of which came with an
\* index and a status, after a status update, a view switch and scales.
C17_Witness ==
    /\ op.name = "redraw"
    /\ ~IsThrow(ret)
    /\ Len(data) = 2
    /\ data[2]._id = Carried(SamplePool[2])._id
    /\ data[2].status = FILTERED_OUT
    /\ data[1].status = ACTIVE
    /\ view = "pca"
    /\ xScale.defined

\* The status bits that are no bit of flag.
BitsOutside(flag) == { b \in Flags : BitAnd(b, flag) = 0 }

\* C18: setStatusToIndex(S, F) leaves every status bit outside F as it was,
\* on every sample, named in S or not, and leaves alone the samples' order
\* and other fields, the id table, the indices, the view and the quadtree.
C18_OnlyTheFlagChanges ==
    [][op'.name = "setStatusToIndex"
        => /\ Len(data') = Len(data)
           /\ \A k \in 1..Len(data) :
                 /\ \A b \in BitsOutside(op'.status) :
                       BitAnd(data'[k].status, b) = BitAnd(data[k].status, b)
                 /\ [data'[k] EXCEPT !.status = 0] = [data[k] EXCEPT !.status = 0]
           /\ UNCHANGED <<view, sampleIDhash, allIndices, quadTree, xScale, yScale>>]_vars

\* NEIGHBOUR moved to the first sample while both samples carry other
\* flags, which they keep.
C18_Witness ==
    /\ op.name = "setStatusToIndex"
    /\ op.status = NEIGHBOUR
    /\ op.index = Num(0)
    /\ Len(data) = 2
    /\ data[1].status = ACTIVE + NEIGHBOUR
    /\ data[2].status = FILTERED_OUT

\* C19: from any state, for flags F1 (one of the enum's or a mask of two)
\* and F2 without a common bit and any sets of samples S1 and S2,
\* setStatusToIndex(S1, F1) then setStatusToIndex(S2, F2) gives
\* every sample the status that the two calls give in the other order; and
\* a setStatusToIndex(S, F) repeated at once changes nothing.
C19_DisjointFlagsCommute ==
    [][op'.name = "setStatusToIndex"
        => /\ \A index \in IndexSetArgs :
              \A status \in { f \in FlagArgs : BitAnd(f, op'.status) = 0 } :
                 LET first == SetStatusToIndex(data, index, status)
                 IN  SetStatusToIndex(data', index, status)
                       = SetStatusToIndex(first, op'.index, op'.status)
           /\ SetStatusToIndex(data', op'.index, op'.status) = data'
           /\ op = op' => data' = data]_vars

\* FILTERED_OUT set on the second sample after ACTIVE was set on the first.
C19_Witness ==
    /\ op.name = "setStatusToIndex"
    /\ op.status = FILTERED_OUT
    /\ op.index = Arr(<<1>>)
    /\ Len(data) = 2
    /\ data[1].status = ACTIVE
    /\ data[2].status = FILTERED_OUT

\* C20: with scales bound, findSampleFromMouse on any constructed manager,
\* one over an empty array included, never throws and returns -1 or the
\* index of a sample of the collection.
C20_FindSampleNeverFails ==
    (op.name = "findSampleFromMouse" /\ xScale.defined /\ yScale.defined)
    => ret \in {Num(-1)} \cup {Num(data[k].i) : k \in 1..Len(data)}

===========================================================================
